---- MODULE Spec2Model ----
(***************************************************************************)
(* Model of epubtrans.py: the Translator session (cache, chunker, client,  *)
(* reassembler) and the EPUBTranslator translate-and-rebuild operation.    *)
(*                                                                         *)
(* A text is a sequence of characters; a character is a one-letter string. *)
(* The letter e-acute (U+00E9) takes two bytes in UTF-8, so that the byte  *)
(* size of a text differs from its length.                                 *)
(***************************************************************************)
EXTENDS Integers, Sequences, FiniteSets, TLC

\* ------------------------------------------------------------------ bounds

\* longest request list handed to one translate_texts call
MaxTexts == 2

\* number of translate_texts sessions run one after the other on one cache
\* store
MaxSessions == 2

\* largest chunk_size a Translator is constructed with
MaxChunkSize == 3

\* longest list of (meta, translation) pairs handed to _unchunk_trans alone
MaxPairs == 3

\* ------------------------------------------------------- strings (Python)

\* len(c.encode('utf-8')) of one character
CharBytes(c) == IF c = "é" THEN 2 ELSE 1

\* len(text.encode('utf-8'))
RECURSIVE ByteLen(_)
ByteLen(s) == IF s = <<>> THEN 0 ELSE CharBytes(Head(s)) + ByteLen(Tail(s))

\* the whitespace str.strip() removes
IsSpace(c) == c \in {" ", "\n"}

RECURSIVE LStrip(_)
LStrip(s) == IF s # <<>> /\ IsSpace(Head(s)) THEN LStrip(Tail(s)) ELSE s

RECURSIVE RStrip(_)
RStrip(s) ==
    IF s # <<>> /\ IsSpace(s[Len(s)]) THEN RStrip(SubSeq(s, 1, Len(s) - 1)) ELSE s

\* str.strip()
Strip(s) == RStrip(LStrip(s))

\* text.split('.'): the pieces between the delimiters, empty pieces kept
RECURSIVE SplitFrom(_, _)
SplitFrom(s, cur) ==
    IF s = <<>> THEN <<cur>>
    ELSE IF Head(s) = "." THEN <<cur>> \o SplitFrom(Tail(s), <<>>)
    ELSE SplitFrom(Tail(s), Append(cur, Head(s)))

Split(s) == SplitFrom(s, <<>>)

\* ' '.join(parts)
RECURSIVE Join(_)
Join(parts) ==
    IF parts = <<>> THEN <<>>
    ELSE IF Len(parts) = 1 THEN parts[1]
    ELSE parts[1] \o <<" ">> \o Join(Tail(parts))

\* ------------------------------------------------------------ exceptions

InvalidText(text) == [kind |-> "InvalidText", text |-> text]

CannotTranslate(text) == [kind |-> "CannotTranslate", text |-> text]

\* ---------------------------------------------------------------- chunker

\* the state of _chunk_texts before its loop: one empty chunk, no error
ChunkerInit ==
    [chunks |-> << [meta |-> <<>>, chunk |-> <<>>] >>, errors |-> <<>>, size |-> 0]

\* the append/close rule without the size test: every fragment joins the
\* current chunk
AddFragmentNoClose(st, meta, frag, size, L) ==
    LET n == Len(st.chunks) IN
    [st EXCEPT !.chunks[n] = [meta |-> Append(@.meta, meta),
                              chunk |-> Append(@.chunk, frag)],
               !.size = @ + size]

\* the append/close rule losing the fragment that does not fit: the new
\* chunk starts empty
AddFragmentLost(st, meta, frag, size, L) ==
    IF st.size + size > L
    THEN [st EXCEPT !.chunks = Append(@, [meta |-> <<>>, chunk |-> <<>>]),
                    !.size = 0]
    ELSE LET n == Len(st.chunks) IN
         [st EXCEPT !.chunks[n] = [meta |-> Append(@.meta, meta),
                                   chunk |-> Append(@.chunk, frag)],
                    !.size = @ + size]

\* the append/close rule: start a new chunk when the fragment does not fit
AddFragment(st, meta, frag, size, L) ==
    IF st.size + size > L
    THEN [st EXCEPT !.chunks = Append(@, [meta |-> <<meta>>, chunk |-> <<frag>>]),
                    !.size = size]
    ELSE LET n == Len(st.chunks) IN
         [st EXCEPT !.chunks[n] = [meta |-> Append(@.meta, meta),
                                   chunk |-> Append(@.chunk, frag)],
                    !.size = @ + size]

\* the loop over the sub-lines of a split text, from sub-line i (1-based
\* here; line_id is i - 1)
RECURSIVE ChunkLines(_, _, _, _, _, _)
ChunkLines(st, text_id, text, lines, i, L) ==
    IF i > Len(lines) THEN st
    ELSE LET line == Strip(lines[i]) IN
         IF line = <<>>
         THEN ChunkLines(st, text_id, text, lines, i + 1, L)
         ELSE ChunkLines(AddFragment(st, <<text_id, i - 1, text>>, line,
                                     ByteLen(line), L),
                         text_id, text, lines, i + 1, L)

\* which texts go in as one fragment
IsWhole(size, L) == size < L

\* the rejection test with all in the place of any
HasLongLineAll(lines, L) == \A i \in 1..Len(lines) : ByteLen(lines[i]) > L

\* whether a split text is rejected
HasLongLine(lines, L) == \E i \in 1..Len(lines) : ByteLen(lines[i]) > L

\* one iteration of the loop over the texts
ChunkText(st, text_id, text, L) ==
    LET size == ByteLen(text) IN
    IF IsWhole(size, L)
    THEN AddFragment(st, <<text_id, 0, text>>, Strip(text), size, L)
    ELSE LET lines == Split(text) IN
         IF HasLongLine(lines, L)
         THEN [st EXCEPT !.errors = Append(@, InvalidText(text))]
         ELSE ChunkLines(st, text_id, text, lines, 1, L)

RECURSIVE ChunkFrom(_, _, _, _)
ChunkFrom(st, order, i, L) ==
    IF i > Len(order) THEN st
    ELSE ChunkFrom(ChunkText(st, i - 1, order[i], L), order, i + 1, L)

\* _chunk_texts(texts): order is the order in which the set is iterated
ChunkTexts(order, L) == ChunkFrom(ChunkerInit, order, 1, L)

\* --------------------------------------------------------------- reassembly

\* the sort key of sorted(trans): (text_id, line_id) first; no two fragments
\* share it, so the rest of the tuple never decides
KeyLess(a, b) ==
    \/ a[1][1] < b[1][1]
    \/ a[1][1] = b[1][1] /\ a[1][2] < b[1][2]

RECURSIVE InsertSorted(_, _)
InsertSorted(x, s) ==
    IF s = <<>> THEN <<x>>
    ELSE IF KeyLess(x, Head(s)) THEN <<x>> \o s
    ELSE <<Head(s)>> \o InsertSorted(x, Tail(s))

\* the list left in the order of arrival
Unsorted(s) == s

\* sorted(trans)
RECURSIVE Sorted(_)
Sorted(s) == IF s = <<>> THEN <<>> ELSE InsertSorted(Head(s), Sorted(Tail(s)))

\* the translations of one text_id, in the order of the sorted list
RECURSIVE TransOf(_, _)
TransOf(s, text_id) ==
    IF s = <<>> THEN <<>>
    ELSE IF Head(s)[1][1] = text_id THEN <<Head(s)[2]>> \o TransOf(Tail(s), text_id)
    ELSE TransOf(Tail(s), text_id)

\* the pairs of one text_id, in the order of the list: texts[text_id][1]
RECURSIVE GroupOf(_, _)
GroupOf(s, text_id) ==
    IF s = <<>> THEN <<>>
    ELSE IF Head(s)[1][1] = text_id THEN <<Head(s)>> \o GroupOf(Tail(s), text_id)
    ELSE GroupOf(Tail(s), text_id)

\* _unchunk_trans(trans): the list is sorted, grouped by text_id, and each
\* group is sorted again (by line_id) before its translations are joined; a
\* mapping orig -> joined translation; when two text_ids carry the same orig
\* the later one overwrites the earlier
Unchunk(trans) ==
    LET s    == Sorted(trans)
        ids  == {s[i][1][1] : i \in 1..Len(s)}
        orig == {s[i][1][3] : i \in 1..Len(s)}
        idOf(o) == CHOOSE id \in ids :
                      /\ \E i \in 1..Len(s) : s[i][1][1] = id /\ s[i][1][3] = o
                      /\ \A i \in 1..Len(s) : s[i][1][3] = o => s[i][1][1] <= id
    IN [o \in orig |-> Join(TransOf(Sorted(GroupOf(s, idOf(o))), idOf(o)))]

\* ----------------------------------------------------------------- clients

\* 'MOCKED: '
MockPrefix == <<"M", "O", "C", "K", "E", "D", ":", " ">>

\* MockTranslator._translate_chunk
MockTranslateChunk(chunk) ==
    [trans |-> [i \in 1..Len(chunk) |-> MockPrefix \o chunk[i]], errors |-> <<>>]

\* the translated_text the backend answers for one string: the backend is a
\* black box; here it answers the string itself
Backend(frag) == frag

\* GoogleTranslator._translate_chunk when client.translate_text returns:
\* "ok" reads response.translations, "bad_response" is an exception while
\* reading them
GoogleTranslateChunk(chunk, outcome) ==
    IF outcome = "ok"
    THEN [trans |-> [i \in 1..Len(chunk) |-> Backend(chunk[i])], errors |-> <<>>]
    ELSE [trans |-> <<>>,
          errors |-> [i \in 1..Len(chunk) |-> CannotTranslate(chunk[i])]]

Translators == {"MockTranslator", "GoogleTranslator"}

\* what one call of _translate_chunk can do: "raise" is an exception of
\* client.translate_text itself, which no handler of the module catches
Outcomes(tr) ==
    IF tr = "MockTranslator" THEN {"ok"} ELSE {"ok", "bad_response", "raise"}

TranslateChunkOf(tr, chunk, outcome) ==
    IF tr = "MockTranslator" THEN MockTranslateChunk(chunk)
    ELSE GoogleTranslateChunk(chunk, outcome)

\* ------------------------------------------------------------------ cache

\* the value of dict.get for a missing key
None == <<"None">>

EmptyCache == [t \in {} |-> <<>>]

Get(cache, text) == IF text \in DOMAIN cache THEN cache[text] ELSE None

\* an update that keeps the new entries only
UpdateOnlyNew(cache, new) == new

\* cache.update(new)
Update(cache, new) ==
    [t \in DOMAIN cache \cup DOMAIN new |->
        IF t \in DOMAIN new THEN new[t] ELSE cache[t]]

\* zip(meta, chunk_trans)
Zip(meta, chunk_trans) ==
    LET n == IF Len(meta) < Len(chunk_trans) THEN Len(meta) ELSE Len(chunk_trans)
    IN [i \in 1..n |-> <<meta[i], chunk_trans[i]>>]

IsBlank(text) == Strip(text) = <<>>

\* the first loop without the entry for a blank text
BlankEntriesNone(texts) == [t \in {} |-> <<>>]

\* the first loop of translate_texts: blank texts are written into the cache
BlankEntries(texts) ==
    [t \in {texts[i] : i \in {j \in 1..Len(texts) : IsBlank(texts[j])}} |-> <<>>]

\* the first loop without the cache lookup
DistinctTextsNoCache(texts, cache) ==
    {texts[i] : i \in {j \in 1..Len(texts) : ~IsBlank(texts[j])}}

\* the first loop of translate_texts: the texts to translate
DistinctTexts(texts, cache) ==
    {texts[i] : i \in {j \in 1..Len(texts) :
                          ~IsBlank(texts[j]) /\ texts[j] \notin DOMAIN cache}}

\* the mapping translate_texts returns
ResultOf(texts, cache) ==
    [t \in {texts[i] : i \in 1..Len(texts)} |-> Get(cache, t)]

\* the orders in which a set can be iterated
Orders(S) ==
    {p \in [1..Cardinality(S) -> S] : \A i, j \in 1..Cardinality(S) : p[i] = p[j] => i = j}

\* the first loop keeping a list in the place of the set: a text asked for
\* twice is iterated twice
RECURSIVE ListOrder(_, _)
ListOrder(texts, cache) ==
    IF texts = <<>> THEN <<>>
    ELSE IF ~IsBlank(Head(texts)) /\ Head(texts) \notin DOMAIN cache
         THEN <<Head(texts)>> \o ListOrder(Tail(texts), cache)
         ELSE ListOrder(Tail(texts), cache)

DistinctOrdersList(texts, cache) == {ListOrder(texts, cache)}

\* the orders in which enumerate(texts) of _chunk_texts can go through the
\* set distinct_texts
DistinctOrders(texts, cache) == Orders(DistinctTexts(texts, cache))

\* ----------------------------------------------------------------- inputs

\* the texts a request is drawn from
Texts ==
    { <<>>,                         \* ""       blank
      <<" ">>,                      \* " "      blank
      <<"a">>,                      \* "a"
      <<" ", "a">>,                 \* " a"     surrounding whitespace
      <<"a", ".", "b">>,            \* "a.b"    two sub-lines
      <<"a", ".", " ", "b">>,       \* "a. b"   whitespace around a sub-line
      <<"a", "b", ".", "c">>,       \* "ab.c"   two sub-lines, 2 + 1 bytes
      <<".", ".">>,                 \* ".."     only delimiters
      <<"é", "b">>,                 \* 2 characters, 3 bytes
      <<"a", "b", "c", "d">> }      \* "abcd"   no delimiter, 4 bytes

\* the values of chunk_size: __init__ refuses 0 and None
ChunkSizes == 1..MaxChunkSize

\* a translation left in the cache file by an earlier run of another backend
OldTranslation == <<"x">>

\* the cache files a Translator can be constructed on
InitialCaches ==
    { EmptyCache,
      [t \in {<<" ">>, <<"a">>} |-> IF t = <<"a">> THEN OldTranslation ELSE <<>>] }

\* the request lists
RECURSIVE SeqsUpTo(_, _)
SeqsUpTo(S, n) ==
    IF n = 0 THEN {<<>>}
    ELSE LET shorter == SeqsUpTo(S, n - 1) IN
         shorter \cup {Append(q, t) : q \in {r \in shorter : Len(r) = n - 1}, t \in S}

Requests == SeqsUpTo(Texts, MaxTexts) \ {<<>>}

\* the texts and the request lists of a sequence of sessions
SessionTexts ==
    { <<" ">>, <<"a">>, <<"a", "b", ".", "c">>, <<"a", "b", "c", "d">> }

SessionRequests ==
    {<<t>> : t \in SessionTexts} \cup {<<t, u>> : t \in SessionTexts, u \in SessionTexts}

\* ----------------------------------------------------------------- epub

\* EPUBTranslator.HTML_TAGS, the tag names that are translated (three of the
\* eight)
HTML_TAGS == {"p", "h1", "li"}

\* EPUBTranslator.IGNORED_ITEM_TYPES (two of the six)
IGNORED_ITEM_TYPES == {"image", "style"}

\* _replace_newlines.sub(' ', s): a newline and the spaces after it become
\* one space; a newline followed by no space stays
RECURSIVE DropSpaces(_)
DropSpaces(s) == IF s # <<>> /\ Head(s) = " " THEN DropSpaces(Tail(s)) ELSE s

RECURSIVE ReplaceNewlines(_)
ReplaceNewlines(s) ==
    IF s = <<>> THEN <<>>
    ELSE IF Head(s) = "\n" /\ Len(s) >= 2 /\ s[2] = " "
         THEN <<" ">> \o ReplaceNewlines(DropSpaces(Tail(s)))
         ELSE <<Head(s)>> \o ReplaceNewlines(Tail(s))

\* A document is a sequence of nodes; a node has a tag name, attributes, a
\* string of its own and child nodes (kids), which have no children of their
\* own. The place of a node is <<i, 0>> for node i of the document and
\* <<i, j>> for kid j of node i.

\* the strings of a sequence of kids, one after the other
RECURSIVE KidsText(_)
KidsText(kids) == IF kids = <<>> THEN <<>> ELSE Head(kids).text \o KidsText(Tail(kids))

\* p.text: the strings of the node and of its descendants
TextOf(node) == node.text \o KidsText(node.kids)

\* the line extracted from a node
LineOf(node) == ReplaceNewlines(Strip(TextOf(node)))

\* the node at a place
NodeAt(nodes, place) ==
    IF place[2] = 0 THEN nodes[place[1]] ELSE nodes[place[1]].kids[place[2]]

\* the matching kids of node i, from kid j
RECURSIVE MatchingKids(_, _, _, _)
MatchingKids(kids, html_tags, i, j) ==
    IF j > Len(kids) THEN <<>>
    ELSE IF kids[j].name \in html_tags /\ LineOf(kids[j]) # <<>>
         THEN << <<i, j>> >> \o MatchingKids(kids, html_tags, i, j + 1)
         ELSE MatchingKids(kids, html_tags, i, j + 1)

\* soup.find_all(html_tags) without the nodes whose line is blank: the
\* places of the nodes in the item, in document order (a node before its
\* descendants)
RECURSIVE MatchingFrom(_, _, _)
MatchingFrom(nodes, html_tags, i) ==
    IF i > Len(nodes) THEN <<>>
    ELSE (IF nodes[i].name \in html_tags /\ LineOf(nodes[i]) # <<>>
          THEN << <<i, 0>> >> ELSE <<>>)
         \o MatchingKids(nodes[i].kids, html_tags, i, 1)
         \o MatchingFrom(nodes, html_tags, i + 1)

Matching(nodes, html_tags) == MatchingFrom(nodes, html_tags, 1)

\* the records _read_epub_file appends for one item
ItemRecords(item, html_tags) ==
    LET m == Matching(item.nodes, html_tags) IN
    [k \in 1..Len(m) |-> [text |-> LineOf(NodeAt(item.nodes, m[k])),
                          tag  |-> NodeAt(item.nodes, m[k]),
                          file |-> item.file_name]]

\* _read_epub_file(html_tags): the records of the items that are not of an
\* ignored type, in the order of the items
RECURSIVE ReadFrom(_, _, _)
ReadFrom(book, html_tags, i) ==
    IF i > Len(book) THEN <<>>
    ELSE IF book[i].type \in IGNORED_ITEM_TYPES
         THEN ReadFrom(book, html_tags, i + 1)
         ELSE ItemRecords(book[i], html_tags) \o ReadFrom(book, html_tags, i + 1)

ReadEpubFile(book, html_tags) == ReadFrom(book, html_tags, 1)

\* the rows _build_files collects for one file name
RECURSIVE RowsOf(_, _)
RowsOf(recs, file) ==
    IF recs = <<>> THEN <<>>
    ELSE IF Head(recs).file = file THEN <<Head(recs)>> \o RowsOf(Tail(recs), file)
    ELSE RowsOf(Tail(recs), file)

\* the item of a file name
ItemOf(book, file) == book[CHOOSE i \in 1..Len(book) : book[i].file_name = file]

Min(a, b) == IF a < b THEN a ELSE b

\* the number of (tag, row) pairs zip(tags, rows) yields
Pairs(tags, rows) == Min(Len(tags), Len(rows))

\* whether the assert t == tag of pair k fails: Tag equality compares name,
\* attributes and content
AssertFailsAt(nodes, tags, rows, k) == NodeAt(nodes, tags[k]) # rows[k].tag

\* whether pair k has no translation: t.string = None and new_tag.append(None)
\* raise in bs4
NoneAt(rows, tr, k) == Get(tr, rows[k].text) = None

\* how the loop over zip(tags, rows) of one file ends: at the first pair
\* whose assert fails or whose translation is None
FileFailure(nodes, tags, rows, tr) ==
    LET bad == {k \in 1..Pairs(tags, rows) :
                   AssertFailsAt(nodes, tags, rows, k) \/ NoneAt(rows, tr, k)}
    IN IF bad = {} THEN "none"
       ELSE LET k == CHOOSE x \in bad : \A y \in bad : x <= y IN
            IF AssertFailsAt(nodes, tags, rows, k) THEN "AssertionError"
            ELSE "NoneTranslation"

\* the pairs of zip(tags, rows) whose tag is at a place: none or one
PairsAt(tags, rows, place) == {k \in 1..Pairs(tags, rows) : tags[k] = place}

\* soup.new_tag(name=tag.name, **tag.attrs) with the translation appended
NewTag(rows, tr, k) ==
    [name |-> rows[k].tag.name, attrs |-> rows[k].tag.attrs,
     text |-> Get(tr, rows[k].text), kids |-> <<>>]

\* what the loop leaves of the kids of node i, from kid j: Replace sets the
\* string of a paired kid, Inline inserts the new tag after it, among the
\* kids
RECURSIVE RebuiltKids(_, _, _, _, _, _, _)
RebuiltKids(nodes, tags, rows, tr, translation_type, i, j) ==
    IF j > Len(nodes[i].kids) THEN <<>>
    ELSE LET kid == nodes[i].kids[j]
             ks  == PairsAt(tags, rows, <<i, j>>)
             k   == CHOOSE x \in ks : TRUE
         IN (IF ks = {} THEN <<kid>>
             ELSE IF translation_type = "REPLACE"
                  THEN << [kid EXCEPT !.text = Get(tr, rows[k].text)] >>
                  ELSE << kid, NewTag(rows, tr, k) >>)
            \o RebuiltKids(nodes, tags, rows, tr, translation_type, i, j + 1)

\* what the loop leaves of node i of the re-parsed item: Replace sets its
\* string, which removes its children; Inline inserts a new tag of the same
\* name and attributes after it, and the new tags of its kids inside it
RebuiltNode(nodes, tags, rows, tr, translation_type, i) ==
    LET ks   == PairsAt(tags, rows, <<i, 0>>)
        k    == CHOOSE x \in ks : TRUE
        kids == RebuiltKids(nodes, tags, rows, tr, translation_type, i, 1)
    IN IF ks = {} THEN << [nodes[i] EXCEPT !.kids = kids] >>
       ELSE IF translation_type = "REPLACE"
            THEN << [nodes[i] EXCEPT !.text = Get(tr, rows[k].text),
                                     !.kids = <<>>] >>
            ELSE << [nodes[i] EXCEPT !.kids = kids], NewTag(rows, tr, k) >>

RECURSIVE RebuiltFrom(_, _, _, _, _, _)
RebuiltFrom(nodes, tags, rows, tr, translation_type, i) ==
    IF i > Len(nodes) THEN <<>>
    ELSE RebuiltNode(nodes, tags, rows, tr, translation_type, i)
         \o RebuiltFrom(nodes, tags, rows, tr, translation_type, i + 1)

\* the file names of the records
FilesOf(recs) == {recs[i].file : i \in 1..Len(recs)}

\* the keys of files in insertion order: the file names by first record
RECURSIVE FileOrderFrom(_, _)
FileOrderFrom(recs, seen) ==
    IF recs = <<>> THEN <<>>
    ELSE IF Head(recs).file \in seen THEN FileOrderFrom(Tail(recs), seen)
    ELSE <<Head(recs).file>> \o FileOrderFrom(Tail(recs), seen \cup {Head(recs).file})

FileOrder(recs) == FileOrderFrom(recs, {})

\* the first failure of the loop over the files
RECURSIVE BuildFailureFrom(_, _, _, _)
BuildFailureFrom(book, recs, tr, order) ==
    IF order = <<>> THEN "none"
    ELSE LET nodes == ItemOf(book, Head(order)).nodes
             fail  == FileFailure(nodes, Matching(nodes, HTML_TAGS),
                                  RowsOf(recs, Head(order)), tr)
         IN IF fail # "none" THEN fail
            ELSE BuildFailureFrom(book, recs, tr, Tail(order))

\* _build_files(recs, tr, translation_type): an exception, or the soup of
\* every file that has a record
BuildFiles(book, recs, tr, translation_type) ==
    LET tagsOf(f) == Matching(ItemOf(book, f).nodes, HTML_TAGS)
        fail      == BuildFailureFrom(book, recs, tr, FileOrder(recs))
    IN IF fail # "none"
       THEN [raised |-> fail, soups |-> [f \in {} |-> <<>>]]
       ELSE [raised |-> "none",
             soups |-> [f \in FilesOf(recs) |->
                           RebuiltFrom(ItemOf(book, f).nodes, tagsOf(f),
                                       RowsOf(recs, f), tr, translation_type, 1)]]

\* the loop of translate over the items: set_content on the rebuilt ones
SetContents(book, soups) ==
    [i \in 1..Len(book) |->
        IF book[i].file_name \in DOMAIN soups
        THEN [book[i] EXCEPT !.nodes = soups[book[i].file_name]]
        ELSE book[i]]

\* translate without the test of the error list
HasErrorsNever(errs) == FALSE

\* the test of translate on the error list of translate_texts
HasErrors(errs) == errs # <<>>

\* a node without children
Node(name, attrs, text) ==
    [name |-> name, attrs |-> attrs, text |-> text, kids |-> <<>>]

\* a node whose content is its children
Nested(name, attrs, kids) ==
    [name |-> name, attrs |-> attrs, text |-> <<>>, kids |-> kids]

\* the documents translated
Books ==
    { << [file_name |-> "ch1", type |-> "document",
          nodes |-> << Node("h1", "", <<"a">>),
                       Node("p", "c", <<"a", "b", ".", "c">>),
                       Node("div", "", <<"a">>),
                       Node("p", "", <<" ">>) >>],
         [file_name |-> "img", type |-> "image",
          nodes |-> << Node("p", "", <<"a">>) >>] >>,
      << [file_name |-> "ch1", type |-> "document",
          nodes |-> << Node("p", "", <<"a">>),
                       Node("p", "", <<"a">>),
                       Node("h1", "c", <<" ", "a", "\n", " ", " ", "b">>) >>],
         [file_name |-> "ch2", type |-> "document",
          nodes |-> << Node("div", "", <<"b">>),
                       Node("li", "", <<"a", "b", "c", "d">>) >>] >>,
      << [file_name |-> "ch1", type |-> "document",
          nodes |-> << Node("div", "", <<"a">>),
                       Node("p", "", <<"a", ".", "b">>) >>],
         [file_name |-> "ch2", type |-> "document",
          nodes |-> << Node("p", "", <<".", ".">>) >>] >>,
      << [file_name |-> "ch1", type |-> "document",
          nodes |-> << Nested("li", "", << Node("p", "c", <<"a">>) >>) >>],
         [file_name |-> "ch2", type |-> "document",
          nodes |-> << Nested("div", "", << Node("p", "", <<"b">>),
                                            Node("p", "", <<" ">>),
                                            Node("p", "c", <<"a">>) >>) >>] >> }

\* the html_tags a caller hands to _read_epub_file
ReadTags == { HTML_TAGS, {"p"}, {"p", "h1", "li", "div"} }

\* ------------------------------------------------------------------ state

VARIABLES
    translator,   \* the class of the Translator
    chunk_size,   \* self._chunk_size
    cacheFile,    \* the content of the cache file
    pc,           \* where translate_texts is: idle, translating, done, raised
    texts,        \* the argument of translate_texts
    cache,        \* the local cache of the session
    loaded,       \* what _load_cache returned at the start of the session
    chunks,       \* the chunks of _chunk_texts
    idx,          \* the chunk the loop is at
    trans,        \* the list of (meta, translation) pairs
    errors,       \* the error list
    sent,         \* every chunk handed to _translate_chunk, in order
    outcomes,     \* what each of these calls did
    saves,        \* the writes of the cache file in the session
    result,       \* the mapping translate_texts returned
    nSessions,    \* sessions started so far
    epub_file,    \* the document self._epub_file names
    translation_type,
    epc,          \* where the EPUBTranslator is
    ebook,        \* the book read, whose items translate sets
    contents,     \* the records of _read_epub_file
    built,        \* whether _build_files was called
    buildRaised,  \* the exception it raised, or none
    soups,        \* what it returned
    output,       \* the document written
    cache_file,   \* self._cache_file: "file" for a path, "False" for no file
    cacheAttr,    \* self._cache: "missing" while never assigned, "None", "dict"
    memCache      \* the mapping self._cache holds when it is a dict

sessionVars == <<translator, chunk_size, cacheFile, pc, texts, cache, loaded,
                 chunks, idx, trans, errors, sent, outcomes, saves, result,
                 nSessions>>

epubVars == <<epub_file, translation_type, epc, ebook, contents, built,
              buildRaised, soups, output>>

ctorVars == <<cache_file, cacheAttr, memCache>>

vars == <<sessionVars, epubVars, ctorVars>>

\* the value of result while nothing was returned
NoResult == <<"NoResult">>

\* the value of output while nothing was written
NoOutput == <<"NoOutput">>

NoSoups == [f \in {} |-> <<>>]

\* a session that has not started
SessionIdle ==
    /\ pc = "idle"
    /\ texts = <<>>
    /\ cache = EmptyCache
    /\ loaded = EmptyCache
    /\ chunks = <<>>
    /\ idx = 0
    /\ trans = <<>>
    /\ errors = <<>>
    /\ sent = <<>>
    /\ outcomes = <<>>
    /\ saves = 0
    /\ result = NoResult
    /\ nSessions = 0

\* no EPUBTranslator
EpubNone ==
    /\ epub_file = <<>>
    /\ translation_type = "INLINE"
    /\ epc = "none"
    /\ ebook = <<>>
    /\ contents = <<>>
    /\ built = FALSE
    /\ buildRaised = "none"
    /\ soups = NoSoups
    /\ output = NoOutput

\* a Translator constructed on a cache file: __init__ ended with
\* self._cache = None
OnFile ==
    /\ cache_file = "file"
    /\ cacheAttr = "None"
    /\ memCache = EmptyCache

\* Translator.__init__ on a cache file: _save_cache(_load_cache()) leaves the
\* file with what it held, or {} if it did not exist
Init ==
    /\ translator \in Translators
    /\ chunk_size \in ChunkSizes
    /\ cacheFile \in InitialCaches
    /\ SessionIdle
    /\ EpubNone
    /\ OnFile

\* _load_cache(): the content of the file, or the mapping of self._cache
\* (set to {} when it is None)
LoadCache == IF cache_file = "file" THEN cacheFile ELSE memCache

\* the file after _save_cache(c): without a file nothing is written
SaveCache(c) == IF cache_file = "file" THEN c ELSE cacheFile

\* the number of writes of the file after one more _save_cache
SavesAfter(n) == IF cache_file = "file" THEN n + 1 ELSE n

\* self._cache after the session's cache became c: without a file the
\* session's cache is the very object self._cache names
MemAfter(c) == IF cache_file = "file" THEN memCache ELSE c

\* the cache after the first loop of translate_texts
CacheAfterBlanks(c, req) == Update(c, BlankEntries(req))

\* translate_texts(req) up to the first call of the client; with nothing to
\* translate it returns at once
TranslateTexts(req) ==
    /\ pc \in {"idle", "done", "raised"}
    /\ nSessions' = nSessions + 1
    /\ texts' = req
    /\ loaded' = LoadCache
    /\ cache' = CacheAfterBlanks(LoadCache, req)
    /\ memCache' = MemAfter(cache')
    /\ cacheAttr' = IF cache_file = "file" THEN cacheAttr ELSE "dict"
    /\ trans' = <<>>
    /\ sent' = <<>>
    /\ outcomes' = <<>>
    /\ saves' = 0
    /\ LET distinct == DistinctTexts(req, LoadCache) IN
       IF distinct = {}
       THEN /\ chunks' = <<>>
            /\ idx' = 0
            /\ errors' = <<>>
            /\ result' = ResultOf(req, cache')
            /\ pc' = "done"
       ELSE \E order \in DistinctOrders(req, LoadCache) :
               LET st == ChunkTexts(order, chunk_size) IN
               /\ chunks' = st.chunks
               /\ errors' = st.errors
               /\ idx' = 1
               /\ result' = NoResult
               /\ pc' = "translating"
    /\ UNCHANGED <<translator, chunk_size, cacheFile, cache_file>>

\* a call of translate_texts by a user of the Translator
StartSession(req) == TranslateTexts(req) /\ UNCHANGED epubVars

\* the error list after one chunk
ErrorsAfter(errs, r) == IF r.errors # <<>> THEN errs \o r.errors ELSE errs

\* the (meta, translation) list after one chunk
TransAfter(tr, meta, r) == IF r.errors # <<>> THEN tr ELSE tr \o Zip(meta, r.trans)

\* one iteration of the loop over the chunks; after the last chunk the rest
\* of translate_texts: reassemble, update and save the cache, return
TranslateChunk(outcome) ==
    /\ pc = "translating"
    /\ outcome \in Outcomes(translator)
    /\ sent' = Append(sent, chunks[idx].chunk)
    /\ outcomes' = Append(outcomes, outcome)
    /\ IF outcome = "raise"
       THEN /\ pc' = "raised"
            /\ UNCHANGED <<cacheFile, cache, idx, trans, errors, saves, result,
                           memCache>>
       ELSE LET r  == TranslateChunkOf(translator, chunks[idx].chunk, outcome)
                e2 == ErrorsAfter(errors, r)
                t2 == TransAfter(trans, chunks[idx].meta, r)
            IN
            /\ errors' = e2
            /\ trans' = t2
            /\ IF idx < Len(chunks)
               THEN /\ idx' = idx + 1
                    /\ pc' = "translating"
                    /\ UNCHANGED <<cacheFile, cache, saves, result, memCache>>
               ELSE LET new == Unchunk(t2) IN
                    /\ idx' = idx
                    /\ cache' = IF DOMAIN new # {} THEN Update(cache, new) ELSE cache
                    /\ cacheFile' = IF DOMAIN new # {} THEN SaveCache(cache') ELSE cacheFile
                    /\ saves' = IF DOMAIN new # {} THEN SavesAfter(saves) ELSE saves
                    /\ memCache' = MemAfter(cache')
                    /\ result' = ResultOf(texts, cache')
                    /\ pc' = "done"
    /\ UNCHANGED <<translator, chunk_size, texts, loaded, chunks, nSessions>>
    /\ UNCHANGED <<cache_file, cacheAttr>>
    /\ UNCHANGED epubVars

\* one call of translate_texts on a freshly constructed Translator
Next ==
    \/ \E req \in Requests : nSessions = 0 /\ StartSession(req)
    \/ \E outcome \in {"ok", "bad_response", "raise"} : TranslateChunk(outcome)

Spec == Init /\ [][Next]_vars

\* calls of translate_texts one after the other on the same cache file
NextSessions ==
    \/ \E req \in SessionRequests : nSessions < MaxSessions /\ StartSession(req)
    \/ \E outcome \in {"ok", "bad_response", "raise"} : TranslateChunk(outcome)

SpecSessions == Init /\ [][NextSessions]_vars

\* _chunk_texts alone, on any set of at most MaxTexts texts iterated in any
\* order
InitChunk ==
    /\ translator = "MockTranslator"
    /\ chunk_size \in ChunkSizes
    /\ cacheFile = EmptyCache
    /\ pc = "chunk_call"
    /\ texts \in {q \in Requests : \A i, j \in 1..Len(q) : q[i] = q[j] => i = j}
    /\ cache = EmptyCache
    /\ loaded = EmptyCache
    /\ chunks = <<>>
    /\ idx = 0
    /\ trans = <<>>
    /\ errors = <<>>
    /\ sent = <<>>
    /\ outcomes = <<>>
    /\ saves = 0
    /\ result = NoResult
    /\ nSessions = 0
    /\ EpubNone
    /\ OnFile

ChunkCall ==
    /\ pc = "chunk_call"
    /\ LET st == ChunkTexts(texts, chunk_size) IN
       /\ chunks' = st.chunks
       /\ errors' = st.errors
    /\ pc' = "chunk_return"
    /\ UNCHANGED <<translator, chunk_size, cacheFile, texts, cache, loaded, idx,
                   trans, sent, outcomes, saves, result, nSessions>>
    /\ UNCHANGED epubVars
    /\ UNCHANGED ctorVars

NextChunk == ChunkCall

SpecChunk == InitChunk /\ [][NextChunk]_vars

\* an EPUBTranslator on a document and a freshly constructed Translator
InitEpub ==
    /\ translator \in Translators
    /\ chunk_size \in ChunkSizes
    /\ cacheFile = EmptyCache
    /\ SessionIdle
    /\ epub_file \in Books
    /\ translation_type \in {"INLINE", "REPLACE"}
    /\ epc = "new"
    /\ ebook = <<>>
    /\ contents = <<>>
    /\ built = FALSE
    /\ buildRaised = "none"
    /\ soups = NoSoups
    /\ output = NoOutput
    /\ OnFile

\* the texts of the records: [r[0] for r in contents]
TextsOf(recs) == [i \in 1..Len(recs) |-> recs[i].text]

\* translate(): _read_epub_file() and translate_texts up to the first call of
\* the client
Translate ==
    /\ epc = "new"
    /\ ebook' = epub_file
    /\ contents' = ReadEpubFile(epub_file, HTML_TAGS)
    /\ TranslateTexts(TextsOf(contents'))
    /\ epc' = "translate"
    /\ UNCHANGED <<epub_file, translation_type, built, buildRaised, soups, output>>

\* translate() once translate_texts has ended: an exception of the client
\* goes through; errors raise RuntimeError; else _build_files, set_content
\* on the items and write_epub
TranslateRest ==
    /\ epc = "translate"
    /\ pc \in {"done", "raised"}
    /\ IF pc = "raised" \/ HasErrors(errors)
       THEN /\ epc' = "aborted"
            /\ UNCHANGED <<ebook, built, buildRaised, soups, output>>
       ELSE LET r == BuildFiles(ebook, contents, result, translation_type) IN
            /\ built' = TRUE
            /\ buildRaised' = r.raised
            /\ IF r.raised # "none"
               THEN /\ epc' = "aborted"
                    /\ UNCHANGED <<ebook, soups, output>>
               ELSE /\ soups' = r.soups
                    /\ ebook' = SetContents(ebook, r.soups)
                    /\ output' = ebook'
                    /\ epc' = "written"
    /\ UNCHANGED <<epub_file, translation_type, contents>>
    /\ UNCHANGED sessionVars
    /\ UNCHANGED ctorVars

\* a caller's own _read_epub_file(html_tags) and translate_texts on its texts
ReadEpubFileCall(html_tags) ==
    /\ epc = "new"
    /\ ebook' = epub_file
    /\ contents' = ReadEpubFile(epub_file, html_tags)
    /\ TranslateTexts(TextsOf(contents'))
    /\ epc' = "read"
    /\ UNCHANGED <<epub_file, translation_type, built, buildRaised, soups, output>>

\* the caller's _build_files(contents, trans, translation_type) with the
\* mapping translate_texts returned
BuildFilesCall ==
    /\ epc = "read"
    /\ pc = "done"
    /\ LET r == BuildFiles(ebook, contents, result, translation_type) IN
       /\ built' = TRUE
       /\ buildRaised' = r.raised
       /\ soups' = r.soups
       /\ epc' = IF r.raised # "none" THEN "build_raised" ELSE "build_returned"
    /\ UNCHANGED <<epub_file, translation_type, ebook, contents, output>>
    /\ UNCHANGED sessionVars
    /\ UNCHANGED ctorVars

NextEpub ==
    \/ Translate
    \/ TranslateRest
    \/ \E html_tags \in ReadTags : ReadEpubFileCall(html_tags)
    \/ BuildFilesCall
    \/ \E outcome \in {"ok", "bad_response", "raise"} : TranslateChunk(outcome)

SpecEpub == InitEpub /\ [][NextEpub]_vars

\* the original text of a text_id, and the translations of the fragments,
\* in the lists handed to _unchunk_trans alone
UnchunkOrig(text_id) ==
    IF text_id = 0 THEN <<"a", ".", "b">> ELSE <<"a", "b", ".", "c">>

UnchunkAnswers == {<<"x">>, <<"y">>}

\* the (meta, translation) pairs: meta is (text_id, line_id, orig)
UnchunkPairs ==
    { << <<text_id, line_id, UnchunkOrig(text_id)>>, tran >> :
         text_id \in 0..1, line_id \in 0..2, tran \in UnchunkAnswers }

\* the lists in any order of arrival; as in the lists translate_texts
\* builds, no two pairs have the same (text_id, line_id)
UnchunkLists ==
    {q \in SeqsUpTo(UnchunkPairs, MaxPairs) :
        \A i, j \in 1..Len(q) :
            (q[i][1][1] = q[j][1][1] /\ q[i][1][2] = q[j][1][2]) => i = j}

\* _unchunk_trans alone, on any such list
InitUnchunk ==
    /\ translator = "MockTranslator"
    /\ chunk_size = MaxChunkSize
    /\ cacheFile = EmptyCache
    /\ pc = "unchunk_call"
    /\ texts = <<>>
    /\ cache = EmptyCache
    /\ loaded = EmptyCache
    /\ chunks = <<>>
    /\ idx = 0
    /\ trans \in UnchunkLists
    /\ errors = <<>>
    /\ sent = <<>>
    /\ outcomes = <<>>
    /\ saves = 0
    /\ result = NoResult
    /\ nSessions = 0
    /\ EpubNone
    /\ OnFile

UnchunkCall ==
    /\ pc = "unchunk_call"
    /\ result' = Unchunk(trans)
    /\ pc' = "unchunk_return"
    /\ UNCHANGED <<translator, chunk_size, cacheFile, texts, cache, loaded, chunks,
                   idx, trans, errors, sent, outcomes, saves, nSessions>>
    /\ UNCHANGED epubVars
    /\ UNCHANGED ctorVars

NextUnchunk == UnchunkCall

SpecUnchunk == InitUnchunk /\ [][NextUnchunk]_vars

\* the ways a Translator is constructed: on a cache file (a path, or None
\* for a fresh time-stamped name), or with cache_file=False
CacheFiles == {"file", "False"}

\* before Translator.__init__: no attribute of self is assigned
InitNew ==
    /\ translator \in Translators
    /\ chunk_size \in ChunkSizes
    /\ cacheFile \in InitialCaches
    /\ pc = "new"
    /\ texts = <<>>
    /\ cache = EmptyCache
    /\ loaded = EmptyCache
    /\ chunks = <<>>
    /\ idx = 0
    /\ trans = <<>>
    /\ errors = <<>>
    /\ sent = <<>>
    /\ outcomes = <<>>
    /\ saves = 0
    /\ result = NoResult
    /\ nSessions = 0
    /\ EpubNone
    /\ cache_file \in CacheFiles
    /\ cacheAttr = "missing"
    /\ memCache = EmptyCache

\* Translator.__init__: _save_cache(_load_cache()) runs before self._cache
\* is assigned. With a file it writes back what it read; without a file
\* _load_cache reads self._cache, which does not exist yet: AttributeError
Construct ==
    /\ pc = "new"
    /\ IF cache_file = "file"
       THEN /\ cacheFile' = SaveCache(LoadCache)
            /\ cacheAttr' = "None"
            /\ pc' = "idle"
       ELSE /\ cacheAttr = "missing"
            /\ pc' = "init_raised"
            /\ UNCHANGED <<cacheFile, cacheAttr>>
    /\ UNCHANGED <<translator, chunk_size, texts, cache, loaded, chunks, idx,
                   trans, errors, sent, outcomes, saves, result, nSessions>>
    /\ UNCHANGED <<cache_file, memCache>>
    /\ UNCHANGED epubVars

\* a Translator constructed either way, then calls of translate_texts one
\* after the other
NextNew ==
    \/ Construct
    \/ \E req \in SessionRequests : nSessions < MaxSessions /\ StartSession(req)
    \/ \E outcome \in {"ok", "bad_response", "raise"} : TranslateChunk(outcome)

SpecNew == InitNew /\ [][NextNew]_vars

\* ------------------------------------------------------------------ claims

\* the UTF-8 bytes of the fragment strings of one chunk
RECURSIVE SumBytes(_)
SumBytes(frags) ==
    IF frags = <<>> THEN 0 ELSE ByteLen(Head(frags)) + SumBytes(Tail(frags))

\* C1: in every chunk _chunk_texts emits, the UTF-8 byte sizes of the
\* fragment strings add up to at most the chunk-size limit
C1_ChunkWithinLimit ==
    pc = "chunk_return" =>
        \A i \in 1..Len(chunks) : SumBytes(chunks[i].chunk) <= chunk_size

\* C1 witness: a chunk was closed because the next fragment did not fit, and
\* a chunk of several fragments fills the limit exactly
C1_Witness ==
    /\ pc = "chunk_return"
    /\ Len(chunks) >= 2
    /\ \E i \in 1..Len(chunks) :
          /\ Len(chunks[i].chunk) >= 2
          /\ \A j \in 1..Len(chunks[i].chunk) : chunks[i].chunk[j] # <<>>
          /\ SumBytes(chunks[i].chunk) = chunk_size

\* the metadata of every fragment of every chunk
AllMetas ==
    UNION {{chunks[i].meta[j] : j \in 1..Len(chunks[i].meta)} : i \in 1..Len(chunks)}

\* the fragments of text t
MetasOf(t) == {m \in AllMetas : m[3] = t}

\* the fragments whose translation was taken
TransMetas == {trans[i][1] : i \in 1..Len(trans)}

\* the requested texts
Requested == {texts[i] : i \in 1..Len(texts)}

\* the session ran to its return
Returned == pc = "done"

\* C2: a text split into several fragments is never partially translated:
\* a translation is stored or returned for it only if the translation of
\* every one of its fragments was taken
C2_NeverPartial ==
    Returned =>
        \A t \in Requested :
            (/\ t \notin DOMAIN loaded
             /\ Cardinality(MetasOf(t)) >= 2
             /\ (result[t] # None \/ t \in DOMAIN cacheFile))
            => MetasOf(t) \subseteq TransMetas

\* the CannotTranslate errors of the list
CannotTranslateErrors ==
    {i \in 1..Len(errors) : errors[i].kind = "CannotTranslate"}

\* the fragments of the chunks the client failed for
FailedFragments ==
    UNION {{<<i, j>> : j \in 1..Len(sent[i])} :
              i \in {k \in 1..Len(sent) : outcomes[k] # "ok"}}

\* C4: when the client fails for a chunk the session does not abort: it
\* records one CannotTranslate error per fragment of the chunk, takes no
\* translation from it, goes on to the later chunks and keeps the
\* translations of the chunks that succeeded
C4_ClientFailureRecorded ==
    /\ pc # "raised"
    /\ Cardinality(CannotTranslateErrors) = Cardinality(FailedFragments)
    /\ \A i \in 1..Len(sent) :
          \A j \in 1..Len(chunks[i].meta) :
              chunks[i].meta[j] \in TransMetas <=> outcomes[i] = "ok"
    /\ Returned => Len(sent) = Len(chunks)

\* the texts _chunk_texts rejects
Rejected(t) ==
    /\ ByteLen(t) > chunk_size
    /\ \E i \in 1..Len(Split(t)) : ByteLen(Split(t)[i]) > chunk_size

\* the texts of the request that go to _chunk_texts
Uncached == {t \in Requested : Strip(t) # <<>> /\ t \notin DOMAIN loaded}

\* the non-empty trimmed sub-lines of an accepted text, by line_id
FragmentsOf(t) ==
    IF ByteLen(t) < chunk_size THEN {<<0, Strip(t)>>}
    ELSE {<<i - 1, Strip(Split(t)[i])>> : i \in {j \in 1..Len(Split(t)) : Strip(Split(t)[j]) # <<>>}}

\* the (line_id, fragment string) pairs the chunks hold for text t
ChunkedOf(t) ==
    UNION {{<<chunks[i].meta[j][2], chunks[i].chunk[j]>> :
               j \in {k \in 1..Len(chunks[i].meta) : chunks[i].meta[k][3] = t}} :
              i \in 1..Len(chunks)}

\* what one client answers for a fragment
ClientAnswer(frag) ==
    IF translator = "MockTranslator" THEN MockPrefix \o frag ELSE Backend(frag)

\* the translation of an accepted text when every chunk succeeds
RECURSIVE JoinAnswers(_, _, _)
JoinAnswers(t, lines, i) ==
    IF i > Len(lines) THEN <<>>
    ELSE IF Strip(lines[i]) = <<>> THEN JoinAnswers(t, lines, i + 1)
    ELSE <<ClientAnswer(Strip(lines[i]))>> \o JoinAnswers(t, lines, i + 1)

FullTranslation(t) ==
    IF ByteLen(t) < chunk_size THEN ClientAnswer(Strip(t))
    ELSE Join(JoinAnswers(t, Split(t), 1))

C6_CachedNotResent ==
    pc \in {"translating", "done", "raised"} =>
        \A t \in DOMAIN loaded :
            /\ MetasOf(t) = {}
            /\ (Returned /\ t \in Requested) => result[t] = loaded[t]

\* C6 witness: the second session asks again for a text the first session
\* translated, beside a new text that is sent to the client
C6_Witness ==
    /\ Returned
    /\ nSessions = 2
    /\ \E t \in Requested :
          /\ Strip(t) # <<>>
          /\ t \in DOMAIN loaded
          /\ loaded[t] # OldTranslation
    /\ \E i \in 1..Len(sent) : sent[i] # <<>>

\* C7: with the identity function as the client, every requested text that
\* is not blank and not rejected maps to itself, and there is no error
\* (stated for the texts that are already trimmed and have a non-empty
\* sub-line)
C7_RoundTrip ==
    (/\ Returned
     /\ translator = "GoogleTranslator"
     /\ \A i \in 1..Len(outcomes) : outcomes[i] = "ok"
     /\ \A t \in Uncached : ~Rejected(t))
    => /\ errors = <<>>
       /\ \A t \in Uncached :
             (Strip(t) = t /\ FragmentsOf(t) # {}) => result[t] = t

\* C9: every requested text is a key of the returned mapping, and when the
\* error list is empty every requested text maps to a translation
C9_NoneIsReported ==
    Returned =>
        /\ DOMAIN result = Requested
        /\ errors = <<>> => \A t \in Requested : result[t] # None

\* C10: every blank requested text maps to "" and is in no chunk
C10_BlankIsEmpty ==
    /\ pc \in {"translating", "done", "raised"} =>
          \A t \in Requested : Strip(t) = <<>> => MetasOf(t) = {}
    /\ Returned => \A t \in Requested : Strip(t) = <<>> => result[t] = <<>>

\* C10 witness: a blank text returned beside a text that went to the client
C10_Witness ==
    /\ Returned
    /\ \E t \in Requested : Strip(t) = <<>> /\ t # <<>> /\ result[t] = <<>>
    /\ \E t \in Requested : Strip(t) # <<>> /\ MetasOf(t) # {} /\ result[t] # None

\* C3: translate is fail-closed: once translate_texts has recorded an error
\* (or the client's exception has gone through), _build_files is not run, no
\* item's content is set and no document is written
C3_FailClosed ==
    (epc \in {"translate", "aborted", "written"} /\ (errors # <<>> \/ pc = "raised"))
    => /\ ~built
       /\ ebook = epub_file
       /\ output = NoOutput

\* C3 witness: translate aborted on an error list while other texts of the
\* document were translated and cached
C3_Witness ==
    /\ epc = "aborted"
    /\ pc = "done"
    /\ errors # <<>>
    /\ trans # <<>>
    /\ cacheFile # EmptyCache

\* the tags the rebuild traversal of a file finds
RebuildTags(f) ==
    LET nodes == ItemOf(epub_file, f).nodes
        m     == Matching(nodes, HTML_TAGS)
    IN [k \in 1..Len(m) |-> NodeAt(nodes, m[k])]

\* the tags of the extraction records of a file
RecordTags(f) ==
    LET rows == RowsOf(contents, f) IN [k \in 1..Len(rows) |-> rows[k].tag]

\* C8: when the rebuild traversal of a container and its extraction records
\* differ in count or in a tag, _build_files raises and nothing is rebuilt
C8_MismatchRaises ==
    built =>
        \A f \in FilesOf(contents) :
            RebuildTags(f) # RecordTags(f) =>
                /\ buildRaised # "none"
                /\ soups = NoSoups
                /\ output = NoOutput

\* how many times text t stands in the request list
Occurrences(t) == Cardinality({i \in 1..Len(texts) : texts[i] = t})

\* the places (chunk, position) of the fragments of text t
FragmentPlaces(t) ==
    UNION {{<<i, j>> : j \in {k \in 1..Len(chunks[i].meta) : chunks[i].meta[k][3] = t}} :
              i \in 1..Len(chunks)}

\* C11: a non-blank text that stands two or more times in the list of one
\* translate_texts call is chunked once: its fragments have one text_id and
\* one place per line_id, every chunk goes to the client at most once, and
\* the returned mapping has one translation for the text
C11_DuplicateChunkedOnce ==
    pc \in {"translating", "done", "raised"} =>
        \A t \in Requested :
            (Occurrences(t) >= 2 /\ Strip(t) # <<>>) =>
                /\ Cardinality({m[1] : m \in MetasOf(t)}) <= 1
                /\ Cardinality(FragmentPlaces(t))
                       = Cardinality({m[2] : m \in MetasOf(t)})
                /\ Len(sent) <= Len(chunks)
                /\ \A i \in 1..Len(sent) : sent[i] = chunks[i].chunk
                /\ Returned =>
                      /\ t \in DOMAIN result
                      /\ \A i, j \in 1..Len(texts) :
                            (texts[i] = t /\ texts[j] = t)
                            => result[texts[i]] = result[texts[j]]

\* C11 witness: a text of two sub-lines asked for twice in one call, sent to
\* the client and translated
C11_Witness ==
    /\ Returned
    /\ \E t \in Requested :
          /\ Occurrences(t) >= 2
          /\ t \notin DOMAIN loaded
          /\ Cardinality(MetasOf(t)) >= 2
          /\ Len(sent) >= 2
          /\ result[t] = FullTranslation(t)

\* C12: with cache_file=False the construction succeeds, every
\* translate_texts call loads the one in-memory mapping that holds what the
\* earlier calls added, and the cache file is never written
C12_InMemoryCache ==
    cache_file = "False" =>
        /\ pc # "init_raised"
        /\ pc \in {"translating", "done", "raised"} =>
              /\ cacheAttr = "dict"
              /\ cache = memCache
        /\ saves = 0

\* C13: a session loads the cache once at its start and writes the cache
\* file at most once, only after the last chunk's result was recorded: the
\* file is as loaded until then, and when the session returns it was written
\* exactly once with the session's cache if the session added an entry to
\* the cache, and not at all otherwise
C13_SavedOnceIfNew ==
    pc \in {"translating", "done", "raised"} =>
        /\ saves <= 1
        /\ pc = "translating" => saves = 0
        /\ saves = 0 => cacheFile = loaded
        /\ saves = 1 => cacheFile = cache
        /\ Returned => (saves = 1 <=> cache # loaded)

\* the nodes of file f before the rebuild
OriginalNodes(f) == ItemOf(epub_file, f).nodes

\* the places of the matched nodes of file f
MatchedPlaces(f) ==
    LET m == Matching(OriginalNodes(f), HTML_TAGS) IN {m[k] : k \in 1..Len(m)}

\* where node i of the document, and kid j of a node, stand once every
\* matched node before them has got one new sibling
InlineIndex(f, i) == i + Cardinality({k \in 1..(i - 1) : <<k, 0>> \in MatchedPlaces(f)})

InlineKidIndex(f, i, j) ==
    j + Cardinality({k \in 1..(j - 1) : <<i, k>> \in MatchedPlaces(f)})

\* the sibling Inline mode owes to node n: its tag name and attributes, and
\* the translation of its extracted text
SiblingOf(n) ==
    [name |-> n.name, attrs |-> n.attrs, text |-> Get(result, LineOf(n)),
     kids |-> <<>>]

\* s holds node n unchanged at index x and its sibling right after it
HoldsPair(s, x, n) ==
    /\ x + 1 <= Len(s)
    /\ s[x] = n
    /\ s[x + 1] = SiblingOf(n)

\* Inline mode at one matched place of file f
InlineAt(f, place) ==
    LET out == soups[f]
        n   == NodeAt(OriginalNodes(f), place)
        x   == InlineIndex(f, place[1])
    IN IF place[2] = 0 THEN HoldsPair(out, x, n)
       ELSE /\ x <= Len(out)
            /\ HoldsPair(out[x].kids, InlineKidIndex(f, place[1], place[2]), n)

\* Replace mode at one matched place of file f
ReplaceAt(f, place) ==
    LET out == soups[f]
        n   == NodeAt(OriginalNodes(f), place)
    IN /\ place[1] <= Len(out)
       /\ place[2] # 0 => place[2] <= Len(out[place[1]].kids)
       /\ TextOf(NodeAt(out, place)) = Get(result, LineOf(n))

\* the number of top-level nodes Inline mode adds to file f
TopSiblings(f) == Cardinality({p \in MatchedPlaces(f) : p[2] = 0})

\* C14: when the two traversals of a file agree, the rebuild gives every
\* matched node the translation of its own extracted text: Inline leaves the
\* node unchanged and puts exactly one new sibling of the same name and
\* attributes with the translation right after it, Replace makes the
\* translation the node's text content
C14_RebuildModes ==
    (built /\ buildRaised = "none") =>
        \A f \in DOMAIN soups :
            RebuildTags(f) = RecordTags(f) =>
                IF translation_type = "INLINE"
                THEN /\ Len(soups[f]) = Len(OriginalNodes(f)) + TopSiblings(f)
                     /\ \A p \in MatchedPlaces(f) : InlineAt(f, p)
                ELSE /\ Len(soups[f]) = Len(OriginalNodes(f))
                     /\ \A p \in MatchedPlaces(f) : ReplaceAt(f, p)

\* C15: the client is never called with an empty list of fragments; a session
\* whose uncached texts are all rejected or without a non-empty sub-line
\* calls the client not at all
C15_EmptyChunkNotSent ==
    /\ \A i \in 1..Len(sent) : sent[i] # <<>>
    /\ (/\ pc \in {"translating", "done", "raised"}
        /\ \A t \in Uncached : Rejected(t) \/ FragmentsOf(t) = {})
       => sent = <<>>

\* the non-empty trimmed sub-lines of text t, by line_id
SubLinesOf(t) ==
    {<<i - 1, Strip(Split(t)[i])>> :
        i \in {j \in 1..Len(Split(t)) : Strip(Split(t)[j]) # <<>>}}

\* C16: a text whose encoded size is at most the limit, the limit itself
\* included, is chunked as one fragment with line_id 0 and is not split on
\* the delimiter; only a text above the limit is split into sub-lines
\* (stated for the non-blank texts, the ones translate_texts hands over)
C16_WithinLimitWhole ==
    pc = "chunk_return" =>
        \A t \in Requested :
            Strip(t) # <<>> =>
                IF ByteLen(t) <= chunk_size
                THEN /\ ChunkedOf(t) = {<<0, Strip(t)>>}
                     /\ Cardinality(FragmentPlaces(t)) = 1
                ELSE ~Rejected(t) => ChunkedOf(t) = SubLinesOf(t)

\* the pairs of the list, whatever their order
PairSet == {trans[i] : i \in 1..Len(trans)}

\* the translations of the sub-lines of original text o from line_id on, in
\* ascending line_id, taken from the set of pairs
RECURSIVE ByLineId(_, _)
ByLineId(o, line_id) ==
    IF \A p \in PairSet : p[1][3] = o => p[1][2] < line_id THEN <<>>
    ELSE LET here == {p \in PairSet : p[1][3] = o /\ p[1][2] = line_id} IN
         (IF here = {} THEN <<>> ELSE <<(CHOOSE p \in here : TRUE)[2]>>)
         \o ByLineId(o, line_id + 1)

\* C17: _unchunk_trans does not depend on the order of arrival: whatever the
\* order of the list, each original text maps to the translations of its
\* sub-lines joined with one space in ascending line_id, a mapping fixed by
\* the set of pairs alone
C17_OrderIndependent ==
    pc = "unchunk_return" =>
        /\ DOMAIN result = {p[1][3] : p \in PairSet}
        /\ \A o \in DOMAIN result : result[o] = Join(ByLineId(o, 0))

\* C17 witness: a list that arrives out of (text_id, line_id) order, with two
\* texts and a text of several sub-lines
C17_Witness ==
    /\ pc = "unchunk_return"
    /\ \E i, j \in 1..Len(trans) : i < j /\ KeyLess(trans[j], trans[i])
    /\ Cardinality(DOMAIN result) = 2
    /\ \E i, j \in 1..Len(trans) :
          /\ trans[i][1][1] = trans[j][1][1]
          /\ trans[i][1][2] > trans[j][1][2]
          /\ i < j
          /\ trans[i][2] # trans[j][2]

\* the places (chunk, position) of all fragments
AllPlaces ==
    UNION {{<<i, j>> : j \in 1..Len(chunks[i].meta)} : i \in 1..Len(chunks)}

\* the metadata of the fragment at a place
MetaAt(place) == chunks[place[1]].meta[place[2]]

\* the fragments an accepted text is owed: itself, trimmed, when it is below
\* the limit, its non-empty trimmed sub-lines when it is above (at the limit
\* either)
OwedFragments(t) ==
    IF ByteLen(t) < chunk_size THEN {{<<0, Strip(t)>>}}
    ELSE IF ByteLen(t) > chunk_size THEN {SubLinesOf(t)}
    ELSE {{<<0, Strip(t)>>}, SubLinesOf(t)}

\* C18: in the output of _chunk_texts every fragment owed to an accepted
\* text stands at exactly one place of one chunk, no two fragments have the
\* same (text_id, line_id), and the fragments of one text_id carry the same
\* original text
C18_EachFragmentOnce ==
    pc = "chunk_return" =>
        /\ \A t \in Requested :
              ~Rejected(t) =>
                  /\ ChunkedOf(t) \in OwedFragments(t)
                  /\ Cardinality(FragmentPlaces(t)) = Cardinality(ChunkedOf(t))
        /\ \A p, q \in AllPlaces :
              (MetaAt(p)[1] = MetaAt(q)[1] /\ MetaAt(p)[2] = MetaAt(q)[2]) => p = q
        /\ \A p, q \in AllPlaces :
              MetaAt(p)[1] = MetaAt(q)[1] => MetaAt(p)[3] = MetaAt(q)[3]
        /\ \A p \in AllPlaces : Len(chunks[p[1]].chunk) = Len(chunks[p[1]].meta)

\* C18 witness: two accepted texts, one of them split into sub-lines that
\* stand in different chunks
C18_Witness ==
    /\ pc = "chunk_return"
    /\ errors = <<>>
    /\ Len(texts) = 2
    /\ \E t \in Requested :
          /\ ByteLen(t) > chunk_size
          /\ Cardinality(SubLinesOf(t)) >= 2
          /\ \E p, q \in FragmentPlaces(t) : p[1] # q[1]
    /\ \E t \in Requested : ByteLen(t) < chunk_size /\ Strip(t) # <<>>

\* C19: the entries of the cache file are monotonic: no step of any session,
\* whatever the client does, removes an entry of the file or gives it another
\* translation
C19_CacheMonotonic ==
    [][\A t \in DOMAIN cacheFile :
          t \in DOMAIN cacheFile' /\ cacheFile'[t] = cacheFile[t]]_vars

\* C19 witness: a second session, in which the client failed for a chunk, has
\* written the file, which held a translation of the first session and now
\* holds a further one
C19_Witness ==
    /\ Returned
    /\ nSessions = 2
    /\ saves = 1
    /\ \E i \in 1..Len(outcomes) : outcomes[i] = "bad_response"
    /\ \E t \in DOMAIN loaded : loaded[t] \notin {<<>>, OldTranslation}
    /\ \E t \in DOMAIN cacheFile : t \notin DOMAIN loaded /\ cacheFile[t] # <<>>
    /\ \A t \in DOMAIN loaded : t \in DOMAIN cacheFile /\ cacheFile[t] = loaded[t]

====
